---- MODULE Spec2Model ----
(***************************************************************************)
(* Model of package robin (github.com/embeage/robin): the round-robin      *)
(* structure Robin (a circular doubly linked list of nodes indexed by a    *)
(* map from value to node) and the LIFOBuffer that backs a bounded Robin.  *)
(*                                                                         *)
(* Pointers are node identities (naturals, Nil for the nil pointer); the   *)
(* heap maps a live node to its fields v, prev, next.  Go maps are         *)
(* functions whose DOMAIN is the key set.  Every method of the package is  *)
(* an operator from the receiver's state to its state after the call, and  *)
(* every action of the specification is one call of an exported method.    *)
(***************************************************************************)
EXTENDS Integers, Sequences, FiniteSets, TLC

\* ---------------------------------------------------------------- bounds
MaxVal == 2        \* values of T are 0..MaxVal (0 is the zero value of int)
MaxArgs == 2       \* longest variadic argument list of Add and Remove
MaxBound == 2      \* largest maximum length given to NewBounded
MaxCap == 2        \* largest capacity given to NewLIFOBuffer

Values == 0..MaxVal
ZeroT == 0         \* *new(T) for T = int
Nil == 0           \* the nil pointer; node identities are 1, 2, ...
NoBuffer == [nobuffer |-> TRUE]   \* a nil Buffer interface value

RECURSIVE SeqsUpTo(_)
SeqsUpTo(n) ==
  IF n = 0 THEN {<<>>}
  ELSE LET S == SeqsUpTo(n - 1)
       IN S \cup {Append(s, v) : s \in {t \in S : Len(t) = n - 1}, v \in Values}

ArgLists == SeqsUpTo(MaxArgs) \ {<<>>}

\* ------------------------------------------------------------ LIFOBuffer
\* lifobuffer.go: NewLIFOBuffer
NewLIFOBuffer(capacity) ==
  [buf |-> [k \in 0..(capacity - 1) |-> ZeroT],
   i |-> 0,
   n |-> 0,
   count |-> << >>,
   capacity |-> capacity]

\* Go map read: the zero value for a missing key
MapGet(m, k) == IF k \in DOMAIN m THEN m[k] ELSE 0

MapSet(m, k, x) == [y \in DOMAIN m \cup {k} |-> IF y = k THEN x ELSE m[y]]

MapDelete(m, k) == [y \in DOMAIN m \ {k} |-> m[y]]

\* lifobuffer.go: incCount
incCount(b, v) ==
  [b EXCEPT !.n = b.n + 1,
            !.count = MapSet(b.count, v, MapGet(b.count, v) + 1)]

\* decCount that keeps a count of zero in the map
decCount_nodelete(b, v) ==
  [b EXCEPT !.n = b.n - 1,
            !.count = MapSet(b.count, v, MapGet(b.count, v) - 1)]

\* lifobuffer.go: decCount
decCount(b, v) ==
  LET c == MapGet(b.count, v) - 1
  IN [b EXCEPT !.n = b.n - 1,
               !.count = IF c = 0 THEN MapDelete(b.count, v)
                                  ELSE MapSet(b.count, v, c)]

\* Push panics (index out of range, then integer divide by zero) exactly
\* when the backing array has no slot b.i
PushPanics(b) == b.i \notin DOMAIN b.buf

\* lifobuffer.go: Push (for a call that does not panic)
Push(b, v) ==
  LET b1 == IF b.n = b.capacity THEN decCount(b, b.buf[b.i]) ELSE b
      b2 == incCount(b1, v)
  IN [b2 EXCEPT !.buf[b.i] = v,
                !.i = (b.i + 1) % b.capacity]

\* Pop that reads the slot at the write cursor without stepping back
Pop_nostep(b) ==
  IF b.n = 0 THEN [b |-> b, v |-> ZeroT, ok |-> FALSE]
  ELSE LET v == b.buf[b.i]
       IN [b |-> decCount(b, v), v |-> v, ok |-> TRUE]

\* lifobuffer.go: Pop, as the triple (buffer after, value, presence)
Pop(b) ==
  IF b.n = 0 THEN [b |-> b, v |-> ZeroT, ok |-> FALSE]
  ELSE LET j == (b.i - 1 + b.capacity) % b.capacity
           v == b.buf[j]
       IN [b |-> decCount([b EXCEPT !.i = j], v), v |-> v, ok |-> TRUE]

\* lifobuffer.go: Contains
LIFOContains(b, v) == v \in DOMAIN b.count

\* lifobuffer.go: Len
LIFOLen(b) == b.n

\* Reset that keeps the multiplicity map
LIFOReset_keepscount(b) == [b EXCEPT !.i = 0, !.n = 0]

\* lifobuffer.go: Reset
LIFOReset(b) == [b EXCEPT !.i = 0, !.n = 0, !.count = << >>]

\* ----------------------------------------------------------------- Robin
\* robin: NewUnbounded
NewUnbounded ==
  [next |-> Nil, nodes |-> << >>, heap |-> << >>,
   maxLen |-> 0, buffer |-> NoBuffer, panicked |-> FALSE]

\* robin: NewBounded with at most one WithBuffer option
NewBounded(len, buffer) ==
  IF len <= 0 THEN NewUnbounded
  ELSE [next |-> Nil, nodes |-> << >>, heap |-> << >>,
        maxLen |-> len, buffer |-> buffer, panicked |-> FALSE]

\* &node[T]{v: v}: a node that is not in the heap yet
NewNode(heap) ==
  CHOOSE n \in 1..(Cardinality(DOMAIN heap) + 1) :
    /\ n \notin DOMAIN heap
    /\ \A m \in 1..(n - 1) : m \in DOMAIN heap

\* attach that does not move r.next to the head of the added nodes
attach_nocursor(r, head, tail) ==
  IF head = Nil THEN r
  ELSE IF r.next = Nil
  THEN [r EXCEPT !.heap = [[r.heap EXCEPT ![head].prev = tail]
                                   EXCEPT ![tail].next = head],
                 !.next = head]
  ELSE LET prev == r.heap[r.next].prev
           next == r.next
           h1 == [r.heap EXCEPT ![head].prev = prev]
           h2 == [h1 EXCEPT ![tail].next = next]
           h3 == [h2 EXCEPT ![prev].next = head]
           h4 == [h3 EXCEPT ![next].prev = tail]
       IN [r EXCEPT !.heap = h4]

\* robin: attach
attach(r, head, tail) ==
  IF head = Nil THEN r
  ELSE IF r.next = Nil
  THEN [r EXCEPT !.heap = [[r.heap EXCEPT ![head].prev = tail]
                                   EXCEPT ![tail].next = head],
                 !.next = head]
  ELSE LET prev == r.heap[r.next].prev
           next == r.next
           h1 == [r.heap EXCEPT ![head].prev = prev]
           h2 == [h1 EXCEPT ![tail].next = next]
           h3 == [h2 EXCEPT ![prev].next = head]
           h4 == [h3 EXCEPT ![next].prev = tail]
       IN [r EXCEPT !.heap = h4, !.next = head]

\* robin: Len
RobinLen(r) == Cardinality(DOMAIN r.nodes)

\* robin: the early return of Add
AddReturnsEarly(r) ==
  r.maxLen > 0 /\ RobinLen(r) = r.maxLen /\ r.buffer = NoBuffer

\* AtMaxLen that tests for more than maxLen values
AtMaxLen_strict(r) == r.maxLen > 0 /\ RobinLen(r) > r.maxLen

\* AtMaxLen with the length test off by one
AtMaxLen_offbyone(r) == r.maxLen > 0 /\ RobinLen(r) = r.maxLen + 1

\* robin: the test of Add's loop that the robin is bounded and full
AtMaxLen(r) == r.maxLen > 0 /\ RobinLen(r) = r.maxLen

\* AddIter that pushes to the buffer without asking buffer.Contains
AddIter_pushalways(st, v) ==
  LET r == st.r
  IN IF st.done THEN st
     ELSE IF v \in DOMAIN r.nodes THEN st
     ELSE IF AtMaxLen(r)
     THEN IF r.buffer = NoBuffer THEN [st EXCEPT !.done = TRUE]
          ELSE IF PushPanics(r.buffer)
               THEN [st EXCEPT !.done = TRUE, !.r.panicked = TRUE]
               ELSE [st EXCEPT !.r.buffer = Push(r.buffer, v)]
     ELSE LET node == NewNode(r.heap)
              h1 == MapSet(r.heap, node, [v |-> v, prev |-> Nil, next |-> Nil])
              r1 == [r EXCEPT !.heap = h1, !.nodes = MapSet(r.nodes, v, node)]
          IN IF st.head = Nil
             THEN [st EXCEPT !.r = r1, !.head = node, !.tail = node]
             ELSE [st EXCEPT
                     !.r = [r1 EXCEPT
                              !.heap = [[h1 EXCEPT ![node].prev = st.tail]
                                            EXCEPT ![st.tail].next = node]],
                     !.tail = node]

\* AddIter that does not skip a value that is already in r.nodes
AddIter_nodup(st, v) ==
  LET r == st.r
  IN IF st.done THEN st
     ELSE IF AtMaxLen(r)
     THEN IF r.buffer = NoBuffer THEN [st EXCEPT !.done = TRUE]
          ELSE IF ~LIFOContains(r.buffer, v)
          THEN IF PushPanics(r.buffer)
               THEN [st EXCEPT !.done = TRUE, !.r.panicked = TRUE]
               ELSE [st EXCEPT !.r.buffer = Push(r.buffer, v)]
          ELSE st
     ELSE LET node == NewNode(r.heap)
              h1 == MapSet(r.heap, node, [v |-> v, prev |-> Nil, next |-> Nil])
              r1 == [r EXCEPT !.heap = h1, !.nodes = MapSet(r.nodes, v, node)]
          IN IF st.head = Nil
             THEN [st EXCEPT !.r = r1, !.head = node, !.tail = node]
             ELSE [st EXCEPT
                     !.r = [r1 EXCEPT
                              !.heap = [[h1 EXCEPT ![node].prev = st.tail]
                                            EXCEPT ![st.tail].next = node]],
                     !.tail = node]

\* robin: one iteration of the loop of Add over the value v; st holds the
\* receiver r, the locals head and tail, and whether the loop has ended
\* (break, or a panic of buffer.Push that unwinds the call)
AddIter(st, v) ==
  LET r == st.r
  IN IF st.done THEN st
     ELSE IF v \in DOMAIN r.nodes THEN st
     ELSE IF AtMaxLen(r)
     THEN IF r.buffer = NoBuffer THEN [st EXCEPT !.done = TRUE]
          ELSE IF ~LIFOContains(r.buffer, v)
          THEN IF PushPanics(r.buffer)
               THEN [st EXCEPT !.done = TRUE, !.r.panicked = TRUE]
               ELSE [st EXCEPT !.r.buffer = Push(r.buffer, v)]
          ELSE st
     ELSE LET node == NewNode(r.heap)
              h1 == MapSet(r.heap, node, [v |-> v, prev |-> Nil, next |-> Nil])
              r1 == [r EXCEPT !.heap = h1, !.nodes = MapSet(r.nodes, v, node)]
          IN IF st.head = Nil
             THEN [st EXCEPT !.r = r1, !.head = node, !.tail = node]
             ELSE [st EXCEPT
                     !.r = [r1 EXCEPT
                              !.heap = [[h1 EXCEPT ![node].prev = st.tail]
                                            EXCEPT ![st.tail].next = node]],
                     !.tail = node]

RECURSIVE AddLoop(_, _, _)
AddLoop(st, vs, k) ==
  IF k > Len(vs) THEN st ELSE AddLoop(AddIter(st, vs[k]), vs, k + 1)

\* robin: Add
Add(r, vs) ==
  IF AddReturnsEarly(r) THEN r
  ELSE LET st == AddLoop([r |-> r, head |-> Nil, tail |-> Nil, done |-> FALSE],
                         vs, 1)
       IN IF st.r.panicked THEN st.r ELSE attach(st.r, st.head, st.tail)

\* unlink that moves r.next to the predecessor of the removed node
unlink_toprev(r, node) ==
  IF node = r.heap[node].next THEN [r EXCEPT !.next = Nil]
  ELSE LET p == r.heap[node].prev
           n == r.heap[node].next
           h1 == [r.heap EXCEPT ![p].next = n]
           h2 == [h1 EXCEPT ![n].prev = p]
       IN [r EXCEPT !.heap = h2,
                    !.next = IF node = r.next THEN p ELSE r.next]

\* unlink that leaves r.next on the removed node
unlink_noadvance(r, node) ==
  IF node = r.heap[node].next THEN [r EXCEPT !.next = Nil]
  ELSE LET p == r.heap[node].prev
           n == r.heap[node].next
           h1 == [r.heap EXCEPT ![p].next = n]
           h2 == [h1 EXCEPT ![n].prev = p]
       IN [r EXCEPT !.heap = h2]

\* robin: unlink
unlink(r, node) ==
  IF node = r.heap[node].next THEN [r EXCEPT !.next = Nil]
  ELSE LET p == r.heap[node].prev
           n == r.heap[node].next
           h1 == [r.heap EXCEPT ![p].next = n]
           h2 == [h1 EXCEPT ![n].prev = p]
       IN [r EXCEPT !.heap = h2,
                    !.next = IF node = r.next THEN n ELSE r.next]

\* the buffer is there and holds v
BufferContainsOf(r, v) == r.buffer # NoBuffer /\ LIFOContains(r.buffer, v)

\* replaceValue that does not store the popped value in the node
replaceValue_nostore(r, node) ==
  IF r.buffer # NoBuffer
  THEN LET p == Pop(r.buffer)
       IN IF p.ok
          THEN [r |-> [r EXCEPT !.buffer = p.b,
                                !.nodes = MapSet(r.nodes, p.v, node)],
                ok |-> TRUE]
          ELSE [r |-> [r EXCEPT !.buffer = p.b], ok |-> FALSE]
  ELSE [r |-> r, ok |-> FALSE]

\* replaceValue that does not index the node under the popped value
replaceValue_noindex(r, node) ==
  IF r.buffer # NoBuffer
  THEN LET p == Pop(r.buffer)
       IN IF p.ok
          THEN [r |-> [r EXCEPT !.buffer = p.b, !.heap[node].v = p.v],
                ok |-> TRUE]
          ELSE [r |-> [r EXCEPT !.buffer = p.b], ok |-> FALSE]
  ELSE [r |-> r, ok |-> FALSE]

\* robin: replaceValue, as the pair (receiver after, result)
replaceValue(r, node) ==
  IF r.buffer # NoBuffer
  THEN LET p == Pop(r.buffer)
       IN IF p.ok
          THEN [r |-> [r EXCEPT !.buffer = p.b,
                                !.heap[node].v = p.v,
                                !.nodes = MapSet(r.nodes, p.v, node)],
                ok |-> TRUE]
          ELSE [r |-> [r EXCEPT !.buffer = p.b], ok |-> FALSE]
  ELSE [r |-> r, ok |-> FALSE]

\* RemoveIter that takes a value that is only in the buffer out of the buffer
RemoveIter_popsbuffer(r, v) ==
  IF v \in DOMAIN r.nodes
  THEN LET node == r.nodes[v]
           r1 == [r EXCEPT !.nodes = MapDelete(r.nodes, v)]
           rep == replaceValue(r1, node)
       IN IF rep.ok THEN rep.r ELSE unlink(rep.r, node)
  ELSE IF BufferContainsOf(r, v) THEN [r EXCEPT !.buffer = Pop(r.buffer).b]
  ELSE r

\* RemoveIter that does not delete the value from r.nodes when the node is
\* given a replacement
RemoveIter_keepsindex(r, v) ==
  IF v \in DOMAIN r.nodes
  THEN LET node == r.nodes[v]
           rep == replaceValue(r, node)
       IN IF rep.ok THEN rep.r
          ELSE unlink([rep.r EXCEPT !.nodes = MapDelete(r.nodes, v)], node)
  ELSE r

\* RemoveIter that unlinks the node without asking the buffer
RemoveIter_noreplace(r, v) ==
  IF v \in DOMAIN r.nodes
  THEN LET node == r.nodes[v]
           r1 == [r EXCEPT !.nodes = MapDelete(r.nodes, v)]
       IN unlink(r1, node)
  ELSE r

\* robin: one iteration of the loop of Remove
RemoveIter(r, v) ==
  IF v \in DOMAIN r.nodes
  THEN LET node == r.nodes[v]
           r1 == [r EXCEPT !.nodes = MapDelete(r.nodes, v)]
           rep == replaceValue(r1, node)
       IN IF rep.ok THEN rep.r ELSE unlink(rep.r, node)
  ELSE r

RECURSIVE Remove(_, _)
\* robin: Remove
Remove(r, vs) ==
  IF vs = <<>> THEN r ELSE Remove(RemoveIter(r, Head(vs)), Tail(vs))

\* Next that does not advance r.next
RobinNext_stuck(r) ==
  IF r.next = Nil THEN [r |-> r, v |-> ZeroT, ok |-> FALSE]
  ELSE [r |-> r, v |-> r.heap[r.next].v, ok |-> TRUE]

\* robin: Next, as the triple (receiver after, value, presence)
RobinNext(r) ==
  IF r.next = Nil THEN [r |-> r, v |-> ZeroT, ok |-> FALSE]
  ELSE [r |-> [r EXCEPT !.next = r.heap[r.next].next],
        v |-> r.heap[r.next].v, ok |-> TRUE]

\* robin: Contains
RobinContains(r, v) == v \in DOMAIN r.nodes

\* robin: BufferContains
BufferContains(r, v) ==
  IF r.buffer = NoBuffer THEN FALSE ELSE LIFOContains(r.buffer, v)

\* robin: BufferLen
BufferLen(r) == IF r.buffer = NoBuffer THEN 0 ELSE LIFOLen(r.buffer)

\* robin: Reset
RobinReset(r) ==
  IF r.buffer = NoBuffer THEN [r EXCEPT !.next = Nil, !.nodes = << >>]
  ELSE [r EXCEPT !.next = Nil, !.buffer = LIFOReset(r.buffer),
                 !.nodes = << >>]

\* Nodes the program can still reach: from r.next and the values of r.nodes
\* along prev and next.  The garbage collector frees every other node.
RECURSIVE Closure(_, _)
Closure(heap, S) ==
  LET T == (S \cup {heap[n].prev : n \in S} \cup {heap[n].next : n \in S})
             \ {Nil}
  IN IF T = S THEN S ELSE Closure(heap, T)

Collect(r) ==
  LET live == Closure(r.heap, ({r.next} \cup {r.nodes[v] : v \in DOMAIN r.nodes})
                                \ {Nil})
  IN [r EXCEPT !.heap = [n \in live |-> r.heap[n]]]

\* ------------------------------------------------------ the state machine
VARIABLES
  next,      \* Robin.next: the node Next returns, or Nil
  nodes,     \* Robin.nodes: map from value to node
  heap,      \* the fields v, prev, next of every live node
  maxLen,    \* Robin.maxLen
  buffer,    \* Robin.buffer: NoBuffer or the state of the LIFOBuffer
  panicked,  \* a call has panicked and unwound
  last,      \* the call made last: name, arguments, results, receiver before
  twin       \* NoRobin, or a Robin constructed anew at the last Reset that
             \* has received the same calls since

vars == <<next, nodes, heap, maxLen, buffer, panicked, last, twin>>

NoRobin == [norobin |-> TRUE]

\* the Robin as the record the operators work on
Robin ==
  [next |-> next, nodes |-> nodes, heap |-> heap, maxLen |-> maxLen,
   buffer |-> buffer, panicked |-> panicked]

Becomes(r) ==
  LET c == Collect(r)
  IN /\ next' = c.next
     /\ nodes' = c.nodes
     /\ heap' = c.heap
     /\ maxLen' = c.maxLen
     /\ buffer' = c.buffer
     /\ panicked' = c.panicked

\* the record of a call: its name, its arguments, its results and the Robin
\* it was made on
Call(op, vs, v, ok, pre) ==
  [op |-> op, vs |-> vs, v |-> v, ok |-> ok, pre |-> pre]

Init ==
  /\ \E len \in 0..MaxBound :
       \E b \in {NoBuffer} \cup {NewLIFOBuffer(c) : c \in 0..MaxCap} :
         LET r == NewBounded(len, b)
         IN /\ next = r.next
            /\ nodes = r.nodes
            /\ heap = r.heap
            /\ maxLen = r.maxLen
            /\ buffer = r.buffer
            /\ panicked = r.panicked
  /\ last = Call("New", <<>>, ZeroT, FALSE, NewUnbounded)
  /\ twin = NoRobin

DoAdd(vs) ==
  /\ ~panicked
  /\ Becomes(Add(Robin, vs))
  /\ last' = Call("Add", vs, ZeroT, FALSE, Robin)
  /\ UNCHANGED twin

DoRemove(vs) ==
  /\ ~panicked
  /\ Becomes(Remove(Robin, vs))
  /\ last' = Call("Remove", vs, ZeroT, FALSE, Robin)
  /\ UNCHANGED twin

DoNext ==
  /\ ~panicked
  /\ LET res == RobinNext(Robin)
     IN /\ Becomes(res.r)
        /\ last' = Call("Next", <<>>, res.v, res.ok, Robin)
  /\ UNCHANGED twin

DoReset ==
  /\ ~panicked
  /\ Becomes(RobinReset(Robin))
  /\ last' = Call("Reset", <<>>, ZeroT, FALSE, Robin)
  /\ UNCHANGED twin

Next ==
  \/ \E vs \in ArgLists : DoAdd(vs)
  \/ \E vs \in ArgLists : DoRemove(vs)
  \/ DoNext
  \/ DoReset

Spec == Init /\ [][Next]_vars

\* ------------------------------- the Robin next to a newly constructed one
\* The calls are those of Spec; from a Reset on, every call is also made on
\* a Robin that was constructed at that Reset with the same maximum length
\* and a new LIFOBuffer of the same capacity.
NewLike(r) ==
  NewBounded(r.maxLen,
             IF r.buffer = NoBuffer THEN NoBuffer
             ELSE NewLIFOBuffer(r.buffer.capacity))

OnTwin(r) == IF twin = NoRobin THEN NoRobin ELSE Collect(r)

TwinAdd(vs) ==
  /\ ~panicked
  /\ Becomes(Add(Robin, vs))
  /\ last' = Call("Add", vs, ZeroT, FALSE, Robin)
  /\ twin' = OnTwin(Add(twin, vs))

TwinRemove(vs) ==
  /\ ~panicked
  /\ Becomes(Remove(Robin, vs))
  /\ last' = Call("Remove", vs, ZeroT, FALSE, Robin)
  /\ twin' = OnTwin(Remove(twin, vs))

TwinNext ==
  /\ ~panicked
  /\ LET res == RobinNext(Robin)
     IN /\ Becomes(res.r)
        /\ last' = Call("Next", <<>>, res.v, res.ok, Robin)
  /\ twin' = OnTwin(RobinNext(twin).r)

TwinReset ==
  /\ ~panicked
  /\ Becomes(RobinReset(Robin))
  /\ last' = Call("Reset", <<>>, ZeroT, FALSE, Robin)
  /\ twin' = NewLike(Robin)

NextTwin ==
  \/ \E vs \in ArgLists : TwinAdd(vs)
  \/ \E vs \in ArgLists : TwinRemove(vs)
  \/ TwinNext
  \/ TwinReset

SpecTwin == Init /\ [][NextTwin]_vars

\* ------------------------- the bounded Robin with a buffer, more values
\* The calls are those of Spec on a bounded Robin with a LIFOBuffer; the
\* arguments of Add and Remove are drawn from one value more, so that the
\* ring, a full buffer and a value that is in neither can differ.  Remove is
\* called with one value: Remove(v1, ..., vk) is Remove(v1); ...; Remove(vk).
MoreValues == 0..(MaxVal + 1)

RECURSIVE SeqsOver(_, _)
SeqsOver(S, n) ==
  IF n = 0 THEN {<<>>}
  ELSE LET Q == SeqsOver(S, n - 1)
       IN Q \cup {Append(q, v) : q \in {t \in Q : Len(t) = n - 1}, v \in S}

MoreArgLists == SeqsOver(MoreValues, MaxArgs) \ {<<>>}

InitBuffered ==
  /\ \E len \in 1..MaxBound :
       \E c \in 0..MaxCap :
         LET r == NewBounded(len, NewLIFOBuffer(c))
         IN /\ next = r.next
            /\ nodes = r.nodes
            /\ heap = r.heap
            /\ maxLen = r.maxLen
            /\ buffer = r.buffer
            /\ panicked = r.panicked
  /\ last = Call("New", <<>>, ZeroT, FALSE, NewUnbounded)
  /\ twin = NoRobin

NextBuffered ==
  \/ \E vs \in MoreArgLists : DoAdd(vs)
  \/ \E v \in MoreValues : DoRemove(<<v>>)
  \/ DoNext
  \/ DoReset

SpecBuffered == InitBuffered /\ [][NextBuffered]_vars

\* ------------------------------------- the LIFOBuffer used on its own
\* The variable buffer is a LIFOBuffer the caller pushes to and pops from
\* directly (duplicate values allowed); there is no Robin.
InitBuffer ==
  /\ \E c \in 0..MaxCap : buffer = NewLIFOBuffer(c)
  /\ next = Nil
  /\ nodes = << >>
  /\ heap = << >>
  /\ maxLen = 0
  /\ panicked = FALSE
  /\ last = Call("New", <<>>, ZeroT, FALSE, NoBuffer)
  /\ twin = NoRobin

BufPush(v) ==
  /\ ~panicked
  /\ IF PushPanics(buffer)
     THEN buffer' = buffer /\ panicked' = TRUE
     ELSE buffer' = Push(buffer, v) /\ panicked' = FALSE
  /\ last' = Call("Push", <<v>>, ZeroT, FALSE, buffer)
  /\ UNCHANGED <<next, nodes, heap, maxLen, twin>>

BufPop ==
  /\ ~panicked
  /\ LET res == Pop(buffer)
     IN /\ buffer' = res.b
        /\ last' = Call("Pop", <<>>, res.v, res.ok, buffer)
  /\ UNCHANGED <<next, nodes, heap, maxLen, panicked, twin>>

BufReset ==
  /\ ~panicked
  /\ buffer' = LIFOReset(buffer)
  /\ last' = Call("Reset", <<>>, ZeroT, FALSE, buffer)
  /\ UNCHANGED <<next, nodes, heap, maxLen, panicked, twin>>

NextBuffer ==
  \/ \E v \in Values : BufPush(v)
  \/ BufPop
  \/ BufReset

SpecBuffer == InitBuffer /\ [][NextBuffer]_vars

\* ------------------------------------------------------------ observations
\* the live values of a LIFOBuffer, oldest first: the n slots behind the
\* write cursor
Live(b) ==
  [k \in 1..b.n |->
     b.buf[(b.i - b.n + k - 1 + b.capacity) % b.capacity]]

\* the results of n consecutive Next() calls on r
RECURSIVE NextN(_, _)
NextN(r, n) ==
  IF n = 0 THEN <<>>
  ELSE LET res == RobinNext(r)
       IN <<[v |-> res.v, ok |-> res.ok]>> \o NextN(res.r, n - 1)

ValuesOf(s) == [k \in 1..Len(s) |-> s[k].v]

AllPresent(s) == \A k \in 1..Len(s) : s[k].ok

\* the upcoming rotation order: the values of the next Len() Next() calls
RotationOrder(r) == ValuesOf(NextN(r, RobinLen(r)))

\* the next Len() Next() calls all report presence
RotationPresent(r) == AllPresent(NextN(r, RobinLen(r)))

\* s without its repeated values, each kept where it occurs first
RECURSIVE Dedup(_)
Dedup(s) ==
  IF s = <<>> THEN <<>>
  ELSE LET d == Dedup(SubSeq(s, 1, Len(s) - 1))
           x == s[Len(s)]
       IN IF x \in {d[k] : k \in DOMAIN d} THEN d ELSE Append(d, x)

\* the values of s that are in the set S, in the order of s
Keep(s, S) == LET In(x) == x \in S IN SelectSeq(s, In)

\* s with every occurrence of v replaced by w
Replace(s, v, w) == [k \in 1..Len(s) |-> IF s[k] = v THEN w ELSE s[k]]

Min(a, b) == IF a < b THEN a ELSE b

\* the node reached from node n by following k next links
RECURSIVE Follow(_, _, _)
Follow(r, n, k) == IF k = 0 THEN n ELSE Follow(r, r.heap[n].next, k - 1)

\* the nodes of the ring: those the index refers to and those linked from
\* the cursor
IndexNodes(r) == {r.nodes[v] : v \in DOMAIN r.nodes}

RingNodes(r) == Closure(r.heap, {r.next} \ {Nil})

Range(s) == {s[k] : k \in DOMAIN s}

NoDuplicates(s) == \A j, k \in DOMAIN s : s[j] = s[k] => j = k

LIFOOrNone(r) == r.buffer = NoBuffer \/ r.buffer.capacity >= 1

\* ------------------------------------------------------------------ claims
\* C1: for an unbounded Robin, a bounded one without buffer or one with a
\* LIFOBuffer of capacity >= 1, after every call the values stored in the
\* ring nodes are exactly the keys of the index, every key v maps to the
\* node that stores v, no two ring nodes store the same value, and Len()
\* is the number of ring nodes.
C1_IndexRingBijection ==
  LIFOOrNone(Robin) =>
    LET ring == RingNodes(Robin)
    IN /\ {heap[n].v : n \in ring} = DOMAIN nodes
       /\ \A v \in DOMAIN nodes : nodes[v] \in ring /\ heap[nodes[v]].v = v
       /\ \A m, n \in ring : heap[m].v = heap[n].v => m = n
       /\ RobinLen(Robin) = Cardinality(ring)

\* a Remove has replaced a value of a two-node ring by a buffered value
C1_Witness ==
  /\ last.op = "Remove"
  /\ buffer # NoBuffer
  /\ buffer.capacity >= 1
  /\ RobinLen(Robin) = 2
  /\ BufferLen(last.pre) > BufferLen(Robin)
  /\ DOMAIN nodes # DOMAIN last.pre.nodes

\* C2: after every call that returned, the cursor is nil exactly when the
\* index is empty; otherwise following next from the cursor visits every
\* ring node exactly once before it returns to the cursor, and prev is the
\* inverse of next on every node.
C2_SingleCycle ==
  ~panicked =>
    /\ (next = Nil) <=> (DOMAIN nodes = {})
    /\ next # Nil =>
         LET k == Cardinality(IndexNodes(Robin))
             visit == [j \in 1..k |-> Follow(Robin, next, j - 1)]
         IN /\ NoDuplicates(visit)
            /\ Range(visit) = IndexNodes(Robin)
            /\ Follow(Robin, next, k) = next
            /\ \A n \in Range(visit) :
                 /\ heap[n].next # Nil /\ heap[n].prev # Nil
                 /\ heap[heap[n].next].prev = n
                 /\ heap[heap[n].prev].next = n

\* a Remove has unlinked the cursor node of a three-node ring
C2_Witness ==
  /\ last.op = "Remove"
  /\ RobinLen(last.pre) = 3
  /\ RobinLen(Robin) = 2
  /\ last.pre.next # next
  /\ next # Nil

\* C3: a Robin created with NewBounded(m), m > 0, never holds more than m
\* values, with or without a buffer and also after a replacement.
C3_LenAtMostMaxLen == maxLen > 0 => RobinLen(Robin) <= maxLen

\* an Add on a bounded Robin has filled it and left a value out
C3_Witness ==
  /\ last.op = "Add"
  /\ maxLen > 0
  /\ RobinLen(last.pre) < maxLen
  /\ RobinLen(Robin) = maxLen
  /\ \E k \in DOMAIN last.vs : ~RobinContains(Robin, last.vs[k])

\* C4: on a Robin holding k >= 1 values, 2k consecutive Next() calls all
\* report presence, every k consecutive ones of them return every value of
\* the ring exactly once, and call i+k returns what call i returned; and
\* after Add(vs) of distinct values on an empty unbounded Robin the Next()
\* calls return vs, vs, ...
C4_RoundRobin ==
  ~panicked =>
    /\ RobinLen(Robin) >= 1 =>
         LET k == RobinLen(Robin)
             s == NextN(Robin, 2 * k)
         IN /\ AllPresent(s)
            /\ \A j \in 1..(k + 1) :
                 LET w == SubSeq(ValuesOf(s), j, j + k - 1)
                 IN NoDuplicates(w) /\ Range(w) = DOMAIN nodes
            /\ \A j \in 1..k : s[j + k].v = s[j].v
    /\ ( /\ last.op = "Add"
         /\ maxLen = 0
         /\ RobinLen(last.pre) = 0
         /\ NoDuplicates(last.vs) )
       => ValuesOf(NextN(Robin, 2 * Len(last.vs))) = last.vs \o last.vs

\* a Next() call has returned a value of a ring of three values
C4_Witness ==
  /\ last.op = "Next"
  /\ last.ok
  /\ RobinLen(Robin) = 3
  /\ next # last.pre.next

\* C5: an Add that newly inserts n1..nj, j >= 1, into a ring whose upcoming
\* rotation order is c0..c(m-1) makes the next m+j Next() calls return
\* n1..nj, c0..c(m-1).
C5_InsertAtCursor ==
  (last.op = "Add" /\ ~panicked) =>
    LET ins == Keep(Dedup(last.vs), DOMAIN nodes \ DOMAIN last.pre.nodes)
    IN Len(ins) >= 1 =>
         /\ RotationPresent(Robin)
         /\ RotationOrder(Robin) = ins \o RotationOrder(last.pre)

\* an Add has inserted two values into a ring that was not empty
C5_Witness ==
  /\ last.op = "Add"
  /\ ~panicked
  /\ RobinLen(last.pre) >= 1
  /\ RobinLen(Robin) = RobinLen(last.pre) + 2

\* C6: Remove(v) of a value v of the ring, with a buffer that is not empty,
\* puts the value w that Pop returns at the ring position of v: the
\* rotation order is the one before with v replaced by w, the cursor node
\* is the same, Len() is unchanged, BufferLen() is one less, Contains(w)
\* holds and BufferContains(w) does not.
C6_Replacement ==
  ( /\ last.op = "Remove"
    /\ Len(last.vs) = 1
    /\ RobinContains(last.pre, last.vs[1])
    /\ BufferLen(last.pre) > 0 )
  => LET v == last.vs[1]
         w == Pop(last.pre.buffer).v
     IN /\ RotationPresent(Robin)
        /\ RotationOrder(Robin) = Replace(RotationOrder(last.pre), v, w)
        /\ next = last.pre.next
        /\ RobinLen(Robin) = RobinLen(last.pre)
        /\ BufferLen(Robin) = BufferLen(last.pre) - 1
        /\ RobinContains(Robin, w)
        /\ ~BufferContains(Robin, w)

\* a Remove(v) of the cursor value of a full ring of two values has taken
\* the replacement from the buffer
C6_Witness ==
  /\ last.op = "Remove"
  /\ Len(last.vs) = 1
  /\ RobinContains(last.pre, last.vs[1])
  /\ BufferLen(last.pre) = 1
  /\ RobinLen(last.pre) = 2
  /\ last.pre.heap[last.pre.next].v = last.vs[1]

\* C7: Remove(v) of a value v of the ring, with no buffer or an empty one,
\* takes v out: Len() is one less, the rotation order is the one before
\* with v deleted (after removing the cursor value the next Next() returns
\* its former successor), and removing the only value empties the ring, so
\* that Next() reports no value.
C7_Unlink ==
  ( /\ last.op = "Remove"
    /\ Len(last.vs) = 1
    /\ RobinContains(last.pre, last.vs[1])
    /\ BufferLen(last.pre) = 0 )
  => LET v == last.vs[1]
         before == RotationOrder(last.pre)
     IN /\ ~RobinContains(Robin, v)
        /\ RobinLen(Robin) = RobinLen(last.pre) - 1
        /\ RotationPresent(Robin)
        /\ RotationOrder(Robin) = Keep(before, Values \ {v})
        /\ (Len(before) >= 2 /\ before[1] = v)
             => (RobinNext(Robin).ok /\ RobinNext(Robin).v = before[2])
        /\ Len(before) = 1 => (RobinLen(Robin) = 0 /\ ~RobinNext(Robin).ok)

\* a Remove(v) has unlinked the cursor value of a ring of three values
C7_Witness ==
  /\ last.op = "Remove"
  /\ Len(last.vs) = 1
  /\ RobinLen(last.pre) = 3
  /\ last.pre.heap[last.pre.next].v = last.vs[1]
  /\ RobinLen(Robin) = 2

\* the buffer after pushing, in order, the values of vs that are neither in
\* the set ring nor in the buffer when their turn comes
RECURSIVE PushNew(_, _, _)
PushNew(b, ring, vs) ==
  IF vs = <<>> THEN b
  ELSE LET v == Head(vs)
       IN IF v \notin ring /\ ~LIFOContains(b, v)
          THEN PushNew(Push(b, v), ring, Tail(vs))
          ELSE PushNew(b, ring, Tail(vs))

\* C8: an Add(vs) on a full bounded Robin with a buffer leaves the ring
\* contents, the rotation order and the cursor unchanged, and the buffer is
\* the result of pushing, in call order, exactly the values of vs that are
\* neither in the ring nor in the buffer when they are processed.
C8_Overflow ==
  ( /\ last.op = "Add"
    /\ ~panicked
    /\ maxLen > 0
    /\ RobinLen(last.pre) = maxLen
    /\ buffer # NoBuffer )
  => /\ nodes = last.pre.nodes
     /\ next = last.pre.next
     /\ heap = last.pre.heap
     /\ RotationOrder(Robin) = RotationOrder(last.pre)
     /\ buffer = PushNew(last.pre.buffer, DOMAIN last.pre.nodes, last.vs)

\* an Add on a full Robin has pushed one value to the buffer and skipped
\* one that the buffer held already
C8_Witness ==
  /\ last.op = "Add"
  /\ ~panicked
  /\ maxLen > 0
  /\ RobinLen(last.pre) = maxLen
  /\ buffer # NoBuffer
  /\ BufferLen(last.pre) = 1
  /\ BufferLen(Robin) = 2
  /\ \E k \in DOMAIN last.vs : BufferContains(last.pre, last.vs[k])

\* C9: on a bounded Robin without buffer, an Add made at Len() = m changes
\* nothing, and an Add(vs) made at Len() < m inserts only the first
\* m - Len() distinct values of vs that are not present yet; a dropped
\* value is not contained afterwards.
C9_NoBufferDrop ==
  (last.op = "Add" /\ maxLen > 0 /\ buffer = NoBuffer) =>
    IF RobinLen(last.pre) = maxLen
    THEN /\ nodes = last.pre.nodes
         /\ next = last.pre.next
         /\ heap = last.pre.heap
         /\ RotationOrder(Robin) = RotationOrder(last.pre)
    ELSE LET fresh == Keep(Dedup(last.vs), Values \ DOMAIN last.pre.nodes)
             room == maxLen - RobinLen(last.pre)
             ins == SubSeq(fresh, 1, Min(room, Len(fresh)))
         IN /\ DOMAIN nodes = DOMAIN last.pre.nodes \cup Range(ins)
            /\ RotationOrder(Robin) = ins \o RotationOrder(last.pre)
            /\ \A v \in Range(fresh) \ Range(ins) : ~RobinContains(Robin, v)

\* an Add of two new values has inserted the first and dropped the second
C9_Witness ==
  /\ last.op = "Add"
  /\ maxLen > 0
  /\ buffer = NoBuffer
  /\ RobinLen(last.pre) = maxLen - 1
  /\ RobinLen(Robin) = maxLen
  /\ Len(last.vs) = 2
  /\ ~RobinContains(last.pre, last.vs[1])
  /\ ~RobinContains(Robin, last.vs[2])

\* C10: after an Add(vs) that returned, the same Add(vs) again leaves
\* Len(), Contains(x) for every x, the rotation order and the cursor as
\* they are.
C10_AddTwice ==
  (last.op = "Add" /\ ~panicked) =>
    LET again == Collect(Add(Robin, last.vs))
    IN /\ ~again.panicked
       /\ RobinLen(again) = RobinLen(Robin)
       /\ \A x \in Values : RobinContains(again, x) <=> RobinContains(Robin, x)
       /\ RotationOrder(again) = RotationOrder(Robin)
       /\ again.next = next
       /\ again.heap = heap

\* an Add(vs) with a repeated value has inserted it, and the same call
\* again would find it in the ring
C10_Witness ==
  /\ last.op = "Add"
  /\ ~panicked
  /\ Len(last.vs) = 2
  /\ last.vs[1] = last.vs[2]
  /\ ~RobinContains(last.pre, last.vs[1])
  /\ RobinContains(Robin, last.vs[1])
  /\ RobinLen(Robin) >= 2

\* C11: a Remove(vs) none of whose values is in the ring leaves the ring
\* contents, the rotation order, the cursor and the buffer (contents and pop
\* order) unchanged.
C11_RemoveAbsent ==
  ( /\ last.op = "Remove"
    /\ \A k \in DOMAIN last.vs : ~RobinContains(last.pre, last.vs[k]) )
  => /\ nodes = last.pre.nodes
     /\ next = last.pre.next
     /\ heap = last.pre.heap
     /\ RotationOrder(Robin) = RotationOrder(last.pre)
     /\ buffer = last.pre.buffer

\* a Remove has been given a value that is only in the buffer and one that
\* is nowhere, on a ring that is not empty
C11_Witness ==
  /\ last.op = "Remove"
  /\ Len(last.vs) = 2
  /\ \A k \in DOMAIN last.vs : ~RobinContains(last.pre, last.vs[k])
  /\ BufferContains(last.pre, last.vs[1])
  /\ ~BufferContains(last.pre, last.vs[2])
  /\ RobinLen(last.pre) >= 1

\* C12: a value that is in the buffer and not in the ring when Remove(vs)
\* is called is still held by the structure, in the buffer or in the ring,
\* after the call.
C12_BufferedValueKept ==
  last.op = "Remove" =>
    \A x \in Values :
      (BufferContains(last.pre, x) /\ ~RobinContains(last.pre, x))
        => (BufferContains(Robin, x) \/ RobinContains(Robin, x))

\* C13: after a Remove(vs), Contains(v) is false for every v of vs.
C13_RemovedValueGone ==
  last.op = "Remove" =>
    \A k \in DOMAIN last.vs : ~RobinContains(Robin, last.vs[k])

\* C13 as amended: after a Remove(vs), Contains(v) is false for every v of
\* vs that was not in the buffer when the call started.
C13_RemovedUnbufferedValueGone ==
  last.op = "Remove" =>
    \A k \in DOMAIN last.vs :
      ~BufferContains(last.pre, last.vs[k]) => ~RobinContains(Robin, last.vs[k])

\* a Remove of two ring values has replaced the first by a buffered value
\* and unlinked the second
C13_Witness ==
  /\ last.op = "Remove"
  /\ Len(last.vs) = 2
  /\ last.vs[1] # last.vs[2]
  /\ RobinContains(last.pre, last.vs[1])
  /\ RobinContains(last.pre, last.vs[2])
  /\ BufferLen(last.pre) = 1
  /\ RobinLen(Robin) = 1

\* C18: a LIFOBuffer that is used only through a Robin never holds a value
\* twice: every count of its multiplicity map is 1.
C18_BufferCountsAreOne ==
  buffer # NoBuffer => \A v \in DOMAIN buffer.count : buffer.count[v] = 1

\* an Add on a full Robin was given the same new value twice and the buffer
\* holds it
C18_Witness ==
  /\ last.op = "Add"
  /\ ~panicked
  /\ Len(last.vs) = 2
  /\ last.vs[1] = last.vs[2]
  /\ RobinLen(last.pre) = maxLen
  /\ ~BufferContains(last.pre, last.vs[1])
  /\ BufferContains(Robin, last.vs[1])

\* C19: for a bounded Robin with a LIFOBuffer of capacity >= 1, no value is
\* both in the ring and in the buffer, and the value a replacement pops is
\* not indexed in the ring.
C19_RingBufferDisjoint ==
  (buffer # NoBuffer /\ buffer.capacity >= 1) =>
    /\ \A v \in Values :
         ~(RobinContains(Robin, v) /\ BufferContains(Robin, v))
    /\ BufferLen(Robin) > 0 => ~RobinContains(Robin, Pop(buffer).v)

\* an Add on a full Robin was given a value of the ring and a new value:
\* only the new one is in the buffer
C19_Witness ==
  /\ last.op = "Add"
  /\ buffer # NoBuffer
  /\ buffer.capacity >= 1
  /\ RobinLen(last.pre) = maxLen
  /\ Len(last.vs) = 2
  /\ RobinContains(last.pre, last.vs[1])
  /\ ~BufferContains(last.pre, last.vs[2])
  /\ BufferContains(Robin, last.vs[2])

\* C20: for a bounded Robin with maximum length m and a LIFOBuffer of
\* capacity >= 1, BufferLen() > 0 implies Len() = m.
C20_BufferOnlyWhenFull ==
  (buffer # NoBuffer /\ buffer.capacity >= 1) =>
    (BufferLen(Robin) > 0 => RobinLen(Robin) = maxLen)

\* a Remove of two ring values has used up the buffer and left a free slot
C20_Witness ==
  /\ last.op = "Remove"
  /\ buffer # NoBuffer
  /\ buffer.capacity >= 1
  /\ BufferLen(last.pre) = 1
  /\ BufferLen(Robin) = 0
  /\ RobinLen(last.pre) = maxLen
  /\ RobinLen(Robin) = maxLen - 1

\* C17: no call panics: every call of every method returns, for every
\* construction parameter, a LIFOBuffer of capacity 0 included.
C17_NoPanic == ~panicked

\* an abstract stack bounded to c values: a push on a full stack discards
\* the bottom value
StackPush(s, v, c) == IF Len(s) = c THEN Append(Tail(s), v) ELSE Append(s, v)

\* C15: a LIFOBuffer of capacity C >= 1 behaves like a stack bounded to C
\* values, the stack being the live values oldest first: it starts empty,
\* Push(v) puts v on top and discards the bottom value of a full stack,
\* Pop() takes and returns the top value with presence true, or reports
\* presence false on the empty stack, Reset empties it, and Len() is its
\* size.
C15_BoundedStack ==
  (buffer # NoBuffer /\ buffer.capacity >= 1) =>
    LET s == Live(buffer)
    IN /\ LIFOLen(buffer) = Len(s)
       /\ last.op = "New" => s = <<>>
       /\ last.op = "Reset" => s = <<>>
       /\ last.op = "Push" =>
            s = StackPush(Live(last.pre), last.vs[1], buffer.capacity)
       /\ last.op = "Pop" =>
            LET t == Live(last.pre)
            IN IF t = <<>>
               THEN ~last.ok /\ s = <<>>
               ELSE /\ last.ok
                    /\ last.v = t[Len(t)]
                    /\ s = SubSeq(t, 1, Len(t) - 1)

\* a Pop has returned the top of a full buffer whose write cursor had
\* wrapped around by overwriting pushes
C15_Witness ==
  /\ last.op = "Pop"
  /\ last.ok
  /\ last.pre.capacity = 2
  /\ last.pre.n = 2
  /\ last.pre.i = 1
  /\ last.pre.buf[0] # last.pre.buf[1]

RECURSIVE SumCounts(_)
SumCounts(m) ==
  IF DOMAIN m = {} THEN 0
  ELSE LET k == CHOOSE x \in DOMAIN m : TRUE
       IN m[k] + SumCounts(MapDelete(m, k))

\* C16: for a LIFOBuffer of capacity C >= 1, 0 <= n <= C, n is the sum of
\* the counts, every count is >= 1 and is the number of live slots that
\* hold the value, and Contains(v) holds exactly for the live values.
C16_Bookkeeping ==
  (buffer # NoBuffer /\ buffer.capacity >= 1) =>
    LET s == Live(buffer)
    IN /\ 0 <= buffer.n /\ buffer.n <= buffer.capacity
       /\ buffer.n = SumCounts(buffer.count)
       /\ \A v \in DOMAIN buffer.count :
            /\ buffer.count[v] >= 1
            /\ buffer.count[v] = Cardinality({k \in DOMAIN s : s[k] = v})
       /\ \A v \in Values : LIFOContains(buffer, v) <=> v \in Range(s)

\* a Pop has taken one of two equal values out of a buffer
C16_Witness ==
  /\ last.op = "Pop"
  /\ last.ok
  /\ MapGet(last.pre.count, last.v) = 2
  /\ MapGet(buffer.count, last.v) = 1

\* C14: after Reset(), Len() and BufferLen() are 0 and Next() reports no
\* value; and after every sequence of calls that follows a Reset, every
\* query (Len, BufferLen, Contains, BufferContains) and the next Next()
\* return what they return on a newly constructed Robin of the same
\* maximum length, with a new buffer of the same capacity, that received
\* the same calls.
C14_ResetIsFresh ==
  /\ last.op = "Reset" =>
       /\ RobinLen(Robin) = 0
       /\ BufferLen(Robin) = 0
       /\ ~RobinNext(Robin).ok
  /\ twin # NoRobin =>
       /\ panicked = twin.panicked
       /\ RobinLen(Robin) = RobinLen(twin)
       /\ BufferLen(Robin) = BufferLen(twin)
       /\ \A x \in Values :
            /\ RobinContains(Robin, x) <=> RobinContains(twin, x)
            /\ BufferContains(Robin, x) <=> BufferContains(twin, x)
       /\ RobinNext(Robin).ok = RobinNext(twin).ok
       /\ RobinNext(Robin).v = RobinNext(twin).v

\* after a Reset of a Robin whose buffer array held other values than a new
\* one, an Add has overflowed into the buffer and a Remove has popped it
C14_Witness ==
  /\ twin # NoRobin
  /\ last.op = "Remove"
  /\ BufferLen(last.pre) > BufferLen(Robin)
  /\ buffer.buf # twin.buffer.buf

\* C21: after an Add(vs) on a bounded Robin with a LIFOBuffer that returned,
\* the same Add(vs) again leaves the contents and the pop order of the
\* buffer as they are.
C21_AddTwiceBuffer ==
  (last.op = "Add" /\ ~panicked /\ buffer # NoBuffer) =>
    LET again == Add(Robin, last.vs)
    IN /\ ~again.panicked
       /\ BufferLen(again) = BufferLen(Robin)
       /\ Live(again.buffer) = Live(buffer)

\* C21 as amended: the same holds provided every value of vs is in the ring
\* or in the buffer after the first call.
C21_AddTwiceBufferKept ==
  ( /\ last.op = "Add"
    /\ ~panicked
    /\ buffer # NoBuffer
    /\ \A k \in DOMAIN last.vs :
         RobinContains(Robin, last.vs[k]) \/ BufferContains(Robin, last.vs[k]) )
  => LET again == Add(Robin, last.vs)
     IN /\ ~again.panicked
        /\ BufferLen(again) = BufferLen(Robin)
        /\ Live(again.buffer) = Live(buffer)

\* an Add on a full Robin has pushed two values to the buffer, which holds
\* both
C21_Witness ==
  /\ last.op = "Add"
  /\ ~panicked
  /\ buffer # NoBuffer
  /\ Len(last.vs) = 2
  /\ last.vs[1] # last.vs[2]
  /\ RobinLen(last.pre) = maxLen
  /\ \A k \in DOMAIN last.vs :
       ~BufferContains(last.pre, last.vs[k]) /\ BufferContains(Robin, last.vs[k])


====
